---- MODULE Spec2Model ----
(***************************************************************************)
(* A model of the topical-map pipeline of Semantic Architect V-Lite:       *)
(* ProcessingService (src/src/services/processingService.ts), the noise    *)
(* filter it applies to extracted fragments (src/src/utils/graphCleaner.ts)*)
(* and the handlers of App (src/src/App.tsx) that start and stop a run.    *)
(*                                                                         *)
(* JavaScript runs a callback to completion: code between two awaits of    *)
(* an external call or a timer is one atomic stretch.  The variable pc is  *)
(* the place where the run is suspended (the "await..." and "delay..."     *)
(* values) or a loop head reached synchronously (the "...Loop" values).    *)
(* Events from outside the run (the user, the cancellation flag) happen    *)
(* only while the run is suspended.                                        *)
(***************************************************************************)
EXTENDS Integers, Sequences, FiniteSets, TLC

(***************************************************************************)
(* Bounds of the model and the small sets the inputs are drawn from.       *)
(***************************************************************************)
MaxInitialQueries == 2
MaxAdditional == 2
MaxLinks == 1
MaxManualUrls == 4
MaxGraphs == 3

Queries == {"q1", "q2", "q3"}
URLs == {"u1", "u2"}

\* Program constants.
MaxDepth == 3
RelevanceThreshold == 30
batchSize == 3
MinContentLength == 100

\* Relevance scores in hundredths: 0.0, 0.3, 0.31.
ScoreValues == {0, 30, 31}
\* Lengths of the content a fetch returns: empty, exactly 100, 101.
ContentLengths == {0, 100, 101}

CancelMessage == "Process cancelled by user"
ExpansionError == "Query expansion failed"
SynthesisError == "Synthesis failed"

----------------------------------------------------------------------------
(***************************************************************************)
(* Sequence helpers.                                                       *)
(***************************************************************************)
SeqsUpTo(S, n) == UNION {[1..k -> S] : k \in 0..n}

Range(s) == {s[i] : i \in 1..Len(s)}

Includes(s, x) == \E i \in 1..Len(s) : s[i] = x

RECURSIVE UniqueFrom(_, _)
UniqueFrom(s, acc) ==
  IF s = <<>> THEN acc
  ELSE UniqueFrom(Tail(s), IF Includes(acc, Head(s)) THEN acc ELSE Append(acc, Head(s)))

\* A list handed on as it is, repeated elements included.
keepAll(s) == s

\* [...new Set(xs)]: the first occurrence of each element, in order.
Unique(s) == UniqueFrom(s, <<>>)

Min(a, b) == IF a < b THEN a ELSE b

----------------------------------------------------------------------------
(***************************************************************************)
(* Knowledge graphs and the noise filter.  Labels and types are sequences  *)
(* of one-character strings, so that toLowerCase, trim, includes, length   *)
(* and the concatenation of a canonical key are computed as the code does. *)
(***************************************************************************)
UpperCase == <<"A", "C", "G", "M", "X">>
LowerCase == <<"a", "c", "g", "m", "x">>

toLowerCaseChar(c) ==
  IF \E i \in 1..Len(UpperCase) : UpperCase[i] = c
  THEN LowerCase[CHOOSE i \in 1..Len(UpperCase) : UpperCase[i] = c]
  ELSE c

toLowerCase(s) == [i \in 1..Len(s) |-> toLowerCaseChar(s[i])]

\* The white space of the texts of the model: blank and line feed.
isWhitespace(c) == c \in {" ", "\n"}

RECURSIVE trimStart(_)
trimStart(s) == IF s # <<>> /\ isWhitespace(Head(s)) THEN trimStart(Tail(s)) ELSE s

RECURSIVE trimEnd(_)
trimEnd(s) ==
  IF s # <<>> /\ isWhitespace(s[Len(s)]) THEN trimEnd(SubSeq(s, 1, Len(s) - 1)) ELSE s

trim(s) == trimEnd(trimStart(s))

\* String.prototype.includes
includes(s, sub) ==
  \E i \in 0..(Len(s) - Len(sub)) : SubSeq(s, i + 1, i + Len(sub)) = sub

\* Entries of the exclusion lists of graphCleaner.ts that the labels and
\* types of the model can meet.
excludedNodeTypes == { <<"C", "o", "o", "k", "i", "e">>, <<"M", "e", "n", "u">> }

excludedNodeLabels == { <<"M", "e", "t", "a">>, <<"_", "g", "a">>, <<"M", "e", "n", "u">> }

allowedNode(node) ==
  LET nodeLabel == trim(toLowerCase(node.label))
      isLabelExcluded ==
        \E excludedLabel \in excludedNodeLabels :
          \/ nodeLabel = toLowerCase(excludedLabel)
          \/ includes(nodeLabel, toLowerCase(excludedLabel))
  IN /\ node.type \notin excludedNodeTypes
     /\ ~isLabelExcluded
     /\ ~(Len(nodeLabel) <= 1)
     /\ ~(includes(nodeLabel, <<"_">>) /\ Len(nodeLabel) < 10)

\* A cleaner that also drops the first node of what it is given.
dropFirstNode(rawGraph) ==
  [nodes |-> IF rawGraph.nodes = <<>> THEN <<>> ELSE Tail(rawGraph.nodes),
   edges |-> rawGraph.edges]

cleanKnowledgeGraph(rawGraph) ==
  LET allowedNodes == SelectSeq(rawGraph.nodes, allowedNode)
      allowedNodeIds == {allowedNodes[i].id : i \in 1..Len(allowedNodes)}
      edgeAllowed(edge) == edge.source \in allowedNodeIds /\ edge.target \in allowedNodeIds
  IN [nodes |-> allowedNodes, edges |-> SelectSeq(rawGraph.edges, edgeAllowed)]

NoProperties == [k \in {} |-> ""]

Node(i, l, t, p) == [id |-> i, label |-> l, type |-> t, properties |-> p]
Edge(s, t, r, w) == [source |-> s, target |-> t, relationship |-> r, weight |-> w]

\* The weight of an edge that the extractor wrote without one (undefined).
NoWeight == -1

EmptyGraph == [nodes |-> <<>>, edges |-> <<>>]

Concept == <<"C", "o", "n">>
Product == <<"P", "r", "o">>
n1 == <<"n", "1">>
n2 == <<"n", "2">>
n3 == <<"n", "3">>
n4 == <<"n", "4">>
has == <<"h", "a", "s">>
needs == <<"n", "e", "e", "d", "s">>

\* Raw graphs an extraction call can return: no node at all, noise only,
\* and two fragments that name the entity gum/Con under different ids and
\* different letter case.  Edge weights are in hundredths.
SampleGraphs ==
  << EmptyGraph,
     [nodes |-> << Node(n1, <<"M", "e", "t", "a", " ", "A", "d">>, Concept, NoProperties),
                   Node(n2, <<"O", "k">>, <<"M", "e", "n", "u">>, NoProperties),
                   Node(n3, <<"X">>, Concept, NoProperties),
                   Node(n4, <<"a", "_", "b">>, Concept, NoProperties) >>,
      edges |-> << Edge(n1, n2, has, 100) >>],
     [nodes |-> << Node(n1, <<"G", "u", "m">>, Concept, [src |-> "s1"]),
                   Node(n2, <<"C", "a", "p">>, Product, NoProperties),
                   Node(n3, <<" ", "X">>, Concept, NoProperties) >>,
      edges |-> << Edge(n1, n2, needs, 50), Edge(n1, n3, has, 100) >>],
     [nodes |-> << Node(n1, <<"g", "u", "m">>, Concept, [src |-> "s2"]),
                   Node(n2, <<"C", "a", "p">>, Product, NoProperties) >>,
      edges |-> << Edge(n1, n2, needs, 0) >>] >>

RawGraphs == {SampleGraphs[i] : i \in 1..Min(MaxGraphs, Len(SampleGraphs))}

----------------------------------------------------------------------------
(***************************************************************************)
(* consolidateKnowledgeGraph.  nodeMap and edgeMap are JavaScript Maps:    *)
(* a sequence of entries in insertion order.                               *)
(***************************************************************************)
\* A key that keeps the letter case of the label.
caseSensitiveKey(node) == node.label \o <<"_">> \o node.type

\* `${node.label.toLowerCase()}_${node.type}`
nodeKey(node) == toLowerCase(node.label) \o <<"_">> \o node.type

IndexOfKey(map, key) ==
  IF \E i \in 1..Len(map) : map[i].key = key
  THEN CHOOSE i \in 1..Len(map) : map[i].key = key /\ \A j \in 1..(i - 1) : map[j].key # key
  ELSE 0

\* { ...existing.properties, ...node.properties }: the later value wins.
mergeProperties(existing, added) ==
  [k \in (DOMAIN existing) \cup (DOMAIN added) |->
     IF k \in DOMAIN added THEN added[k] ELSE existing[k]]

addNode(nodeMap, node) ==
  LET key == nodeKey(node)
      at == IndexOfKey(nodeMap, key)
  IN IF at = 0
     THEN Append(nodeMap, [key |-> key, value |-> [node EXCEPT !.id = key]])
     ELSE [nodeMap EXCEPT ![at].value.properties = mergeProperties(@, node.properties)]

RECURSIVE addNodes(_, _)
addNodes(nodeMap, nodes) ==
  IF nodes = <<>> THEN nodeMap ELSE addNodes(addNode(nodeMap, Head(nodes)), Tail(nodes))

RECURSIVE consolidateNodes(_, _)
consolidateNodes(nodeMap, fragments) ==
  IF fragments = <<>> THEN nodeMap
  ELSE consolidateNodes(addNodes(nodeMap, Head(fragments).nodes), Tail(fragments))

NoKey == <<>>

\* An endpoint left as the extractor wrote it.
rawNodeId(nodeId, fragments) == nodeId

findNodeKey(nodeId, fragments) ==
  LET matches(n) == n.id = nodeId \/ toLowerCase(n.label) = toLowerCase(nodeId)
      hit(f) == \E i \in 1..Len(fragments[f].nodes) : matches(fragments[f].nodes[i])
  IN IF \E f \in 1..Len(fragments) : hit(f)
     THEN LET f == CHOOSE g \in 1..Len(fragments) : hit(g) /\ \A h \in 1..(g - 1) : ~hit(h)
              ns == fragments[f].nodes
              i == CHOOSE j \in 1..Len(ns) : matches(ns[j]) /\ \A h \in 1..(j - 1) : ~matches(ns[h])
          IN nodeKey(ns[i])
     ELSE NoKey

\* edge.weight || 1 and Math.min((existing.weight || 1) + 0.1, 1), in hundredths.
weightOrOne(w) == IF w = NoWeight \/ w = 0 THEN 100 ELSE w

addEdge(edgeMap, edge, fragments) ==
  LET sourceKey == findNodeKey(edge.source, fragments)
      targetKey == findNodeKey(edge.target, fragments)
      edgeKey == sourceKey \o <<"_">> \o edge.relationship \o <<"_">> \o targetKey
      at == IndexOfKey(edgeMap, edgeKey)
  IN IF sourceKey = NoKey \/ targetKey = NoKey THEN edgeMap
     ELSE IF at = 0
     THEN Append(edgeMap, [key |-> edgeKey,
                           value |-> Edge(sourceKey, targetKey, edge.relationship,
                                          weightOrOne(edge.weight))])
     ELSE [edgeMap EXCEPT ![at].value.weight = Min(weightOrOne(@) + 10, 100)]

RECURSIVE addEdges(_, _, _)
addEdges(edgeMap, edges, fragments) ==
  IF edges = <<>> THEN edgeMap
  ELSE addEdges(addEdge(edgeMap, Head(edges), fragments), Tail(edges), fragments)

RECURSIVE consolidateEdges(_, _, _)
consolidateEdges(edgeMap, rest, fragments) ==
  IF rest = <<>> THEN edgeMap
  ELSE consolidateEdges(addEdges(edgeMap, Head(rest).edges, fragments), Tail(rest), fragments)

Values(map) == [i \in 1..Len(map) |-> map[i].value]

consolidateKnowledgeGraph(fragments) ==
  [nodes |-> Values(consolidateNodes(<<>>, fragments)),
   edges |-> Values(consolidateEdges(<<>>, fragments, fragments))]

----------------------------------------------------------------------------
(***************************************************************************)
(* cleanMarkdown.  A text is a sequence of one-character strings.          *)
(***************************************************************************)
FallbackLength == 2000

\* String.prototype.split('\n')
RECURSIVE splitFrom(_, _, _)
splitFrom(s, current, parts) ==
  IF s = <<>> THEN Append(parts, current)
  ELSE IF Head(s) = "\n" THEN splitFrom(Tail(s), <<>>, Append(parts, current))
  ELSE splitFrom(Tail(s), Append(current, Head(s)), parts)

split(s) == splitFrom(s, <<>>, <<>>)

\* Array.prototype.join
RECURSIVE join(_, _)
join(parts, separator) ==
  IF parts = <<>> THEN <<>>
  ELSE IF Len(parts) = 1 THEN parts[1]
  ELSE parts[1] \o separator \o join(Tail(parts), separator)

\* String.prototype.substring(0, n)
substring(s, n) == SubSeq(s, 1, Min(n, Len(s)))

RECURSIVE leadingHashes(_)
leadingHashes(s) == IF s # <<>> /\ Head(s) = "#" THEN 1 + leadingHashes(Tail(s)) ELSE 0

\* trimmedLine.match(/^(#{1,3})\s+(.+)/) on a trimmed line: one to three
\* hashes, white space, and something after it.
atxMatch(trimmedLine) ==
  LET n == leadingHashes(trimmedLine) IN
  /\ n \in 1..3
  /\ Len(trimmedLine) > n + 1
  /\ isWhitespace(trimmedLine[n + 1])

\* nextLine && (nextLine.match(/^=+$/) || nextLine.match(/^-+$/))
isUnderline(nextLine) ==
  /\ nextLine # <<>>
  /\ \/ \A k \in 1..Len(nextLine) : nextLine[k] = "="
     \/ \A k \in 1..Len(nextLine) : nextLine[k] = "-"

\* The test for a Setext heading at lines[i] (24-30), i counted from 1.
setextMatch(lines, i) == i < Len(lines) /\ isUnderline(trim(lines[i + 1]))

\* if (isInValidSection && currentBlock.length > 0) cleanedBlocks.push(...)
pushBlock(cleanedBlocks, currentBlock, isInValidSection) ==
  IF isInValidSection /\ Len(currentBlock) > 0
  THEN Append(cleanedBlocks, trim(join(currentBlock, <<"\n">>)))
  ELSE cleanedBlocks

\* The loop over the lines (16-58) from lines[i] on and the push of the
\* last block (61-63).
RECURSIVE scanLines(_, _, _, _, _)
scanLines(lines, i, cleanedBlocks, currentBlock, isInValidSection) ==
  IF i > Len(lines) THEN pushBlock(cleanedBlocks, currentBlock, isInValidSection)
  ELSE IF atxMatch(trim(lines[i]))
  THEN scanLines(lines, i + 1, pushBlock(cleanedBlocks, currentBlock, isInValidSection),
                 <<lines[i]>>, TRUE)
  ELSE IF setextMatch(lines, i)
  THEN scanLines(lines, i + 2, pushBlock(cleanedBlocks, currentBlock, isInValidSection),
                 <<lines[i], lines[i + 1]>>, TRUE)
  ELSE IF isInValidSection
  THEN scanLines(lines, i + 1, cleanedBlocks, Append(currentBlock, lines[i]), TRUE)
  ELSE scanLines(lines, i + 1, cleanedBlocks, currentBlock, FALSE)

cleanMarkdown(rawMarkdown) ==
  IF rawMarkdown = <<>> THEN <<>>
  ELSE LET result == trim(join(scanLines(split(rawMarkdown), 1, <<>>, <<>>, FALSE),
                               <<"\n", "\n">>))
       IN IF Len(result) = 0 THEN trim(substring(rawMarkdown, FallbackLength)) ELSE result

----------------------------------------------------------------------------
(***************************************************************************)
(* State.                                                                  *)
(***************************************************************************)
VARIABLES
  config,               \* the AppConfig of the run
  pc,                   \* where the run stands
  cancelFlag,           \* what this.isCancelled() returns
  logs,                 \* how often each entry was handed to onLog
  outcome,              \* how processTopicalMap ended and what it returned
  allUrls, queriesToProcess, processedQueries, currentRound,
  queriesForThisRound,
  qi,                   \* position of the for-of loop in queriesForThisRound
  discoveredQueries, scoredQueries,
  di,                   \* number of candidates the scoring loop has handled
  urls,                 \* the list getUrls returned
  i,                    \* loop variable of scrapeContent
  inflight,             \* indices of the batch whose fetch has not settled
  scrapedContent,       \* results of scrapeContent
  ei,                   \* loop variable of extractKnowledgeGraphs
  knowledgeFragments,   \* results of extractKnowledgeGraphs
  consolidatedGraph,
  cleanedContent,       \* what cleanMarkdown returned for a document
  isProcessing, isCancelled, results   \* React state of App

explorerVars == <<allUrls, queriesToProcess, processedQueries, currentRound,
                  queriesForThisRound, qi, discoveredQueries, scoredQueries, di>>
fetchVars == <<urls, i, inflight, scrapedContent>>
extractVars == <<ei, knowledgeFragments, consolidatedGraph, cleanedContent>>
appVars == <<isProcessing, isCancelled, results>>
vars == <<config, pc, cancelFlag, logs, outcome, explorerVars, fetchVars,
          extractVars, appVars>>

\* A service that never consults its callback.
neverCancelled == FALSE

\* this.isCancelled(): the callback handed to the constructor.
thisIsCancelled == cancelFlag

\* The run is suspended on an external call or on a timer.
Suspended ==
  pc \in {"awaitExpansion", "awaitSearch", "awaitScore", "delaySearch", "awaitBatch",
          "delayBatch", "awaitExtraction", "delayExtraction", "awaitSynthesis"}

Ended == pc \in {"done", "failed", "cancelled"}

Configs ==
  {[urlSource |-> "auto", serpExplorationDepth |-> d, urls |-> <<>>] : d \in 1..MaxDepth}
  \cup {[urlSource |-> "manual", serpExplorationDepth |-> 1, urls |-> u] :
          u \in SeqsUpTo(URLs, MaxManualUrls)}

Log(level, message) == [level |-> level, message |-> message]

\* The log of a run is kept as the number of times each entry was handed to
\* onLog.
NoLogs == [e \in {} |-> 0]

RECURSIVE Emit(_, _)
Emit(log, entries) ==
  IF entries = <<>> THEN log
  ELSE LET e == Head(entries) IN
       Emit([x \in (DOMAIN log) \cup {e} |->
               IF x \in DOMAIN log THEN log[x] + (IF x = e THEN 1 ELSE 0) ELSE 1],
            Tail(entries))

\* The number of entries of a level.
RECURSIVE SumOver(_, _)
SumOver(log, es) ==
  IF es = {} THEN 0
  ELSE LET e == CHOOSE x \in es : TRUE IN log[e] + SumOver(log, es \ {e})

Count(log, level) == SumOver(log, {e \in DOMAIN log : e.level = level})

NoOutcome == [kind |-> "none"]
NoResults == [kind |-> "null"]

----------------------------------------------------------------------------
(***************************************************************************)
(* The end of processTopicalMap and the continuation of handleGenerate     *)
(* that awaits it (App.tsx 124-140).  isProcessing tells whether the run   *)
(* was started by handleGenerate.                                          *)
(***************************************************************************)
\* return { topicalMap, knowledgeGraph, scrapedContent, metadata }
Return(entries, topicalMap, graph) ==
  LET value == [kind |-> "results", topicalMap |-> topicalMap, knowledgeGraph |-> graph,
                scrapedContent |-> scrapedContent,
                metadata |-> [totalUrls |-> Len(urls),
                              processedUrls |-> Len(scrapedContent)]]
  IN /\ pc' = "done"
     /\ logs' = Emit(logs, entries)
     /\ outcome' = value
     /\ IF isProcessing
        THEN /\ results' = value
             /\ isProcessing' = FALSE
        ELSE UNCHANGED <<results, isProcessing>>
     /\ UNCHANGED isCancelled

\* The catch block of processTopicalMap (121-128) for an error thrown
\* after the entries were logged.
Catch(entries, message) ==
  LET caught == Emit(logs, entries \o <<Log("ERROR", "Blad podczas przetwarzania")>>)
  IN IF message = CancelMessage
     THEN /\ pc' = "cancelled"
          /\ outcome' = [kind |-> "undefined", message |-> message]
          /\ logs' = Emit(caught, <<Log("INFO", "Proces zostal anulowany przez uzytkownika")>>)
          /\ IF isProcessing
             THEN /\ results' = [kind |-> "undefined"]
                  /\ isProcessing' = FALSE
             ELSE UNCHANGED <<results, isProcessing>>
          /\ UNCHANGED isCancelled
     ELSE /\ pc' = "failed"
          /\ outcome' = [kind |-> "error", message |-> message]
          /\ IF isProcessing
             THEN /\ logs' = Emit(caught, <<Log("ERROR", "Proces nie powiodl sie")>>)
                  /\ isProcessing' = FALSE
             ELSE /\ logs' = caught
                  /\ UNCHANGED isProcessing
          /\ UNCHANGED <<results, isCancelled>>

----------------------------------------------------------------------------
(***************************************************************************)
(* processTopicalMap and getUrls.                                          *)
(***************************************************************************)
\* processTopicalMap up to its first await, called with configuration cfg
\* after the entries `before` were logged.
Begin(cfg, before) ==
  /\ config' = cfg
  /\ outcome' = NoOutcome
  /\ allUrls' = <<>>
  /\ queriesToProcess' = <<>>
  /\ processedQueries' = {}
  /\ currentRound' = 1
  /\ queriesForThisRound' = <<>>
  /\ qi' = 1
  /\ discoveredQueries' = <<>>
  /\ scoredQueries' = <<>>
  /\ di' = 0
  /\ i' = 0
  /\ inflight' = {}
  /\ scrapedContent' = <<>>
  /\ ei' = 0
  /\ knowledgeFragments' = <<>>
  /\ consolidatedGraph' = EmptyGraph
  /\ cleanedContent' = <<>>
  /\ IF cfg.urlSource = "manual"
     THEN /\ urls' = cfg.urls
          /\ logs' = Emit(before,
               << Log("INFO", "Rozpoczynanie procesu"),
                  Log("INFO", "Uzywanie recznie wprowadzonych URL-i"),
                  Log("SUCCESS", "Pozyskano unikalnych URL-i"),
                  Log("INFO", "Rozpoczynanie pobierania tresci") >>)
          /\ pc' = "scrapeLoop"
     ELSE /\ urls' = <<>>
          /\ logs' = Emit(before,
               << Log("INFO", "Rozpoczynanie procesu"),
                  Log("INFO", "Rozpoczynanie automatycznego pozyskiwania URL-i"),
                  Log("INFO", "Generowanie zapytan") >>)
          /\ pc' = "awaitExpansion"

\* A caller other than App calls processTopicalMap(config).
processTopicalMap ==
  /\ pc = "start"
  /\ Begin(config, logs)
  /\ UNCHANGED <<cancelFlag, appVars>>

\* The list items of the Markdown that performQueryExpansion returned, as
\* line.match(/^-+\s*(.+)/) finds them; the result has each query once.
parseMarkdownQueryList(items) == Unique(items)

performQueryExpansionFails ==
  /\ pc = "awaitExpansion"
  /\ Catch(<<>>, ExpansionError)
  /\ UNCHANGED <<config, cancelFlag, explorerVars, fetchVars, extractVars>>

performQueryExpansionReturns ==
  /\ pc = "awaitExpansion"
  /\ \E items \in SeqsUpTo(Queries, MaxInitialQueries) :
       queriesToProcess' = parseMarkdownQueryList(items)
  /\ logs' = Emit(logs, <<Log("SUCCESS", "Wygenerowano poczatkowych zapytan")>>)
  /\ pc' = "roundLoop"
  /\ UNCHANGED <<config, cancelFlag, outcome, allUrls, processedQueries, currentRound,
                 queriesForThisRound, qi, discoveredQueries, scoredQueries, di,
                 fetchVars, extractVars, appVars>>

\* getUrls returns [...new Set(allUrls)] and its locals are gone;
\* processTopicalMap logs the count and calls scrapeContent.
ReturnUrls(entries) ==
  /\ urls' = Unique(allUrls)
  /\ allUrls' = <<>>
  /\ queriesToProcess' = <<>>
  /\ processedQueries' = {}
  /\ currentRound' = 1
  /\ queriesForThisRound' = <<>>
  /\ qi' = 1
  /\ UNCHANGED <<discoveredQueries, scoredQueries, di>>
  /\ logs' = Emit(logs, entries \o
       << Log("SUCCESS", "Pozyskano unikalnych URL-i"),
          Log("INFO", "Rozpoczynanie pobierania tresci") >>)
  /\ pc' = "scrapeLoop"
  /\ UNCHANGED <<config, cancelFlag, outcome, i, inflight, scrapedContent,
                 extractVars, appVars>>

\* A round loop that does not look at the queue.
neverEmptyQueue(queue) == FALSE

\* if (queriesToProcess.length === 0)
isEmptyQueue(queue) == Len(queue) = 0

\* The head of the round loop (156-170).
RoundLoop ==
  /\ pc = "roundLoop"
  /\ IF ~(currentRound <= config.serpExplorationDepth)
     THEN ReturnUrls(<<>>)
     ELSE IF thisIsCancelled
     THEN /\ Catch(<<Log("WARNING", "Proces zatrzymany podczas eksploracji SERP")>>,
                   CancelMessage)
          /\ UNCHANGED <<config, cancelFlag, explorerVars, fetchVars, extractVars>>
     ELSE IF isEmptyQueue(queriesToProcess)
     THEN ReturnUrls(<<Log("INFO", "Brak nowych zapytan")>>)
     ELSE /\ logs' = Emit(logs, <<Log("INFO", "Rozpoczynanie rundy eksploracji SERP")>>)
          /\ queriesForThisRound' = queriesToProcess
          /\ queriesToProcess' = <<>>
          /\ qi' = 1
          /\ pc' = "queryLoop"
          /\ UNCHANGED <<config, cancelFlag, outcome, allUrls, processedQueries,
                         currentRound, discoveredQueries, scoredQueries, di, fetchVars,
                         extractVars, appVars>>

\* A loop that takes no query for processed.
neverProcessed(query, processed) == FALSE

\* if (processedQueries.has(query))
isProcessed(query, processed) == query \in processed

\* The head of the loop over the queries of the round (172-191).
QueryLoop ==
  /\ pc = "queryLoop"
  /\ IF qi > Len(queriesForThisRound)
     THEN /\ currentRound' = currentRound + 1
          /\ pc' = "roundLoop"
          /\ UNCHANGED <<config, cancelFlag, logs, outcome, allUrls, queriesToProcess,
                         processedQueries, queriesForThisRound, qi, discoveredQueries,
                         scoredQueries, di, fetchVars, extractVars, appVars>>
     ELSE IF thisIsCancelled
     THEN /\ Catch(<<Log("WARNING", "Proces zatrzymany przez uzytkownika")>>, CancelMessage)
          /\ UNCHANGED <<config, cancelFlag, explorerVars, fetchVars, extractVars>>
     ELSE IF isProcessed(queriesForThisRound[qi], processedQueries)
     THEN /\ qi' = qi + 1
          /\ UNCHANGED <<config, pc, cancelFlag, logs, outcome, allUrls, queriesToProcess,
                         processedQueries, currentRound, queriesForThisRound,
                         discoveredQueries, scoredQueries, di, fetchVars, extractVars,
                         appVars>>
     ELSE /\ processedQueries' = processedQueries \cup {queriesForThisRound[qi]}
          /\ logs' = Emit(logs, <<Log("INFO", "Wyszukiwanie URL-i dla zapytania")>>)
          /\ pc' = "awaitSearch"
          /\ UNCHANGED <<config, cancelFlag, outcome, allUrls, queriesToProcess,
                         currentRound, queriesForThisRound, qi, discoveredQueries,
                         scoredQueries, di, fetchVars, extractVars, appVars>>

\* What searchSerp returns (App.tsx 406-412): one result per link, each
\* carrying the same list of additional queries.
SerpResults(links, additionalQueries) ==
  [k \in 1..Len(links) |-> [link |-> links[k], additionalQueries |-> additionalQueries]]

SearchResponses ==
  {SerpResults(l, a) : l \in SeqsUpTo(URLs, MaxLinks), a \in SeqsUpTo(Queries, MaxAdditional)}

\* The forEach over an additionalQueries list (201-205).
RECURSIVE collectQueries(_, _, _)
collectQueries(found, additionalQueries, processed) ==
  IF additionalQueries = <<>> THEN found
  ELSE LET discoveredQuery == Head(additionalQueries) IN
       collectQueries(
         IF discoveredQuery \notin processed /\ ~Includes(found, discoveredQuery)
         THEN Append(found, discoveredQuery) ELSE found,
         Tail(additionalQueries), processed)

\* The forEach over the results (199-207).
RECURSIVE collectDiscovered(_, _, _)
collectDiscovered(found, searchResults, processed) ==
  IF searchResults = <<>> THEN found
  ELSE collectDiscovered(
         collectQueries(found, Head(searchResults).additionalQueries, processed),
         Tail(searchResults), processed)

\* A getUrls without the try of 185: a failed search ends the run.
searchSerpThrows ==
  /\ pc = "awaitSearch"
  /\ Catch(<<>>, "search failed")
  /\ UNCHANGED <<config, cancelFlag, explorerVars, fetchVars, extractVars>>

\* The catch of 247-249: the query is skipped, without the delay.
searchSerpFails ==
  /\ pc = "awaitSearch"
  /\ logs' = Emit(logs, <<Log("WARNING", "Blad wyszukiwania")>>)
  /\ qi' = qi + 1
  /\ pc' = "queryLoop"
  /\ UNCHANGED <<config, cancelFlag, outcome, allUrls, queriesToProcess, processedQueries,
                 currentRound, queriesForThisRound, discoveredQueries, scoredQueries, di,
                 fetchVars, extractVars, appVars>>

\* 193-211: the URLs are appended and the candidates collected; scoring
\* starts when there are candidates and this is not the last round.
canSelect(found, round, depth) == Len(found) > 0 /\ round < depth

SearchReturns(responses) ==
  /\ pc = "awaitSearch"
  /\ \E searchResults \in responses :
       LET found == collectDiscovered(<<>>, searchResults, processedQueries) IN
       /\ allUrls' = allUrls \o [k \in 1..Len(searchResults) |-> searchResults[k].link]
       /\ discoveredQueries' = found
       /\ IF canSelect(found, currentRound, config.serpExplorationDepth)
          THEN /\ logs' = Emit(logs, << Log("INFO", "Znaleziono URL-i"),
                                        Log("INFO", "Znaleziono potencjalnych zapytan") >>)
               /\ pc' = "awaitScore"
          ELSE /\ logs' = Emit(logs, <<Log("INFO", "Znaleziono URL-i")>>)
               /\ pc' = "delaySearch"
  /\ UNCHANGED <<config, cancelFlag, outcome, queriesToProcess, processedQueries,
                 currentRound, queriesForThisRound, qi, scoredQueries, di, fetchVars,
                 extractVars, appVars>>

searchSerpReturns == SearchReturns(SearchResponses)

\* The queries the explorer has met so far and still holds: those searched,
\* those of the round in progress and those enqueued for the next round.
Seen == processedQueries \cup Range(queriesForThisRound) \cup Range(queriesToProcess)

\* A searchSerp whose results name only queries met before.
searchSerpReturnsSeen ==
  SearchReturns({r \in SearchResponses :
                   \A k \in 1..Len(r) : Range(r[k].additionalQueries) \subseteq Seen})

\* scoredQueries.reduce((best, current) => current.score > best.score ? current : best)
RECURSIVE reduceBest(_, _)
reduceBest(best, rest) ==
  IF rest = <<>> THEN best
  ELSE reduceBest(IF Head(rest).score > best.score THEN Head(rest) ELSE best, Tail(rest))

bestQuery(scored) == reduceBest(Head(scored), Tail(scored))

\* A threshold that lets a score of exactly 0.3 through.
isRelevantInclusive(score) == score >= RelevanceThreshold

\* if (bestQuery.score > 0.3)
isRelevant(score) == score > RelevanceThreshold

\* 230-246 once every candidate has been scored.
Select(scored, entries) ==
  /\ IF Len(scored) > 0
     THEN IF isRelevant(bestQuery(scored).score)
          THEN /\ queriesToProcess' = Append(queriesToProcess, bestQuery(scored).query)
               /\ logs' = Emit(logs, entries \o <<Log("SUCCESS", "Wybrano najlepsze zapytanie")>>)
          ELSE /\ queriesToProcess' = queriesToProcess
               /\ logs' = Emit(logs, entries \o <<Log("INFO", "zbyt niska trafnosc")>>)
     ELSE /\ queriesToProcess' = queriesToProcess
          /\ logs' = Emit(logs, entries)
  /\ pc' = "delaySearch"

\* One scoreQueryRelevance call settles (216-228); after the last one the
\* best candidate is selected.
Scored(scored, entries) ==
  /\ scoredQueries' = scored
  /\ di' = di + 1
  /\ IF di + 1 < Len(discoveredQueries)
     THEN /\ logs' = Emit(logs, entries)
          /\ UNCHANGED <<pc, queriesToProcess>>
     ELSE Select(scored, entries)
  /\ UNCHANGED <<config, cancelFlag, outcome, allUrls, processedQueries, currentRound,
                 queriesForThisRound, qi, discoveredQueries, fetchVars, extractVars,
                 appVars>>

scoreQueryRelevanceReturns ==
  /\ pc = "awaitScore"
  /\ \E score \in ScoreValues :
       Scored(Append(scoredQueries, [query |-> discoveredQueries[di + 1], score |-> score]),
              <<Log("INFO", "otrzymalo ocene trafnosci")>>)

scoreQueryRelevanceFails ==
  /\ pc = "awaitScore"
  /\ Scored(scoredQueries, <<Log("WARNING", "Blad oceny zapytania")>>)

\* await this.delay(500) of 246 is over and the iteration ends.
SearchDelayElapsed ==
  /\ pc = "delaySearch"
  /\ qi' = qi + 1
  /\ discoveredQueries' = <<>>
  /\ scoredQueries' = <<>>
  /\ di' = 0
  /\ pc' = "queryLoop"
  /\ UNCHANGED <<config, cancelFlag, logs, outcome, allUrls, queriesToProcess,
                 processedQueries, currentRound, queriesForThisRound, fetchVars,
                 extractVars, appVars>>

----------------------------------------------------------------------------
(***************************************************************************)
(* scrapeContent.                                                          *)
(***************************************************************************)
\* urls.slice(i): a slice that lost its end.
batchToEnd(from, all) == {k \in 1..Len(all) : from < k}

\* urls.slice(i, i + batchSize), as positions 1..Len(urls).
batch(from, all) == {k \in 1..Len(all) : from < k /\ k <= from + batchSize}

\* A test that lets a content of exactly 100 characters through.
isViableInclusive(contentLength) == contentLength >= MinContentLength

\* if (content && content.length > 100)
isViable(contentLength) == contentLength > MinContentLength

\* The head of the batch loop (264-274): the cancellation check, then every
\* fetch of the batch is started.  When the loop is over processTopicalMap
\* logs the count and calls extractKnowledgeGraphs.
ScrapeLoop ==
  /\ pc = "scrapeLoop"
  /\ IF ~(i < Len(urls))
     THEN /\ logs' = Emit(logs, << Log("SUCCESS", "Pobrano tresc ze stron"),
                                Log("INFO", "Rozpoczynanie ekstrakcji grafow wiedzy") >>)
          /\ ei' = 0
          /\ i' = 0
          /\ pc' = "extractLoop"
          /\ UNCHANGED <<config, cancelFlag, outcome, explorerVars, urls, inflight,
                         scrapedContent, knowledgeFragments, consolidatedGraph,
                         cleanedContent, appVars>>
     ELSE IF thisIsCancelled
     THEN /\ Catch(<<Log("WARNING", "Proces zatrzymany podczas pobierania tresci")>>,
                   CancelMessage)
          /\ UNCHANGED <<config, cancelFlag, explorerVars, fetchVars, extractVars>>
     ELSE /\ inflight' = batch(i, urls)
          /\ logs' = Emit(logs, [k \in 1..Cardinality(batch(i, urls)) |->
                                Log("INFO", "Pobieram tresc")])
          /\ pc' = "awaitBatch"
          /\ UNCHANGED <<config, cancelFlag, outcome, explorerVars, urls, i,
                         scrapedContent, extractVars, appVars>>

\* A wait that is over as soon as one fetch has settled.
anySettled(pending) == TRUE

\* await Promise.allSettled(batchPromises): over when no fetch is pending.
allSettled(pending) == pending = {}

\* The fetch of urls[k] has settled and Promise.allSettled may resolve
\* (288-295).
Settled(k) ==
  /\ inflight' = inflight \ {k}
  /\ IF allSettled(inflight \ {k})
     THEN IF i + batchSize < Len(urls)
          THEN pc' = "delayBatch" /\ i' = i
          ELSE pc' = "scrapeLoop" /\ i' = i + batchSize
     ELSE UNCHANGED <<pc, i>>
  /\ UNCHANGED <<config, cancelFlag, outcome, explorerVars, urls, extractVars, appVars>>

\* A fetch of the batch returns (275-284); responses[url] are the lengths
\* of the contents that a fetch of url can return.
FetchResponds(responses) ==
  /\ pc = "awaitBatch"
  /\ \E k \in inflight : \E contentLength \in responses[urls[k]] :
       /\ IF isViable(contentLength)
          THEN /\ scrapedContent' =
                    Append(scrapedContent, [url |-> urls[k], content |-> contentLength])
               /\ logs' = Emit(logs, <<Log("SUCCESS", "Pobrano tresc")>>)
          ELSE /\ scrapedContent' = scrapedContent
               /\ logs' = Emit(logs, <<Log("WARNING", "Zbyt malo tresci")>>)
       /\ Settled(k)

scrapeContentReturns == FetchResponds([url \in URLs |-> ContentLengths])

scrapeContentFails ==
  /\ pc = "awaitBatch"
  /\ \E k \in inflight :
       /\ scrapedContent' = scrapedContent
       /\ logs' = Emit(logs, <<Log("WARNING", "Blad pobierania")>>)
       /\ Settled(k)

\* await this.delay(1000) of 294 is over.
BatchDelayElapsed ==
  /\ pc = "delayBatch"
  /\ i' = i + batchSize
  /\ pc' = "scrapeLoop"
  /\ UNCHANGED <<config, cancelFlag, logs, outcome, explorerVars, urls, inflight,
                 scrapedContent, extractVars, appVars>>

----------------------------------------------------------------------------
(***************************************************************************)
(* extractKnowledgeGraphs, consolidation and generateTopicalMap.           *)
(***************************************************************************)
Placeholder == "placeholder report"
Report == "report"

\* A generateTopicalMap without the check for an empty graph.
neverEmptyGraph(graph) == FALSE

\* if (!graph.nodes || graph.nodes.length === 0)
isEmptyGraph(graph) == Len(graph.nodes) = 0

\* The head of the extraction loop (312-344).  The contents of the model
\* are far below the token limit, so none is truncated.  When the loop is
\* over processTopicalMap consolidates the fragments (99-101) and calls
\* generateTopicalMap (444-477).
ExtractLoop ==
  /\ pc = "extractLoop"
  /\ IF ~(ei < Len(scrapedContent))
     THEN LET graph == consolidateKnowledgeGraph(knowledgeFragments)
              entries == << Log("SUCCESS", "Wygenerowano fragmentow grafu wiedzy"),
                            Log("INFO", "Konsolidacja fragmentow"),
                            Log("SUCCESS", "Skonsolidowano graf"),
                            Log("INFO", "Generowanie finalnej mapy tematycznej") >>
          IN /\ consolidatedGraph' = graph
             /\ IF isEmptyGraph(graph)
                THEN Return(entries \o << Log("WARNING", "Graf wiedzy jest pusty"),
                                          Log("SUCCESS", "Wygenerowano finalna mape"),
                                          Log("SUCCESS", "Proces zakonczony pomyslnie") >>,
                            Placeholder, graph)
                ELSE /\ logs' = Emit(logs, entries)
                     /\ pc' = "awaitSynthesis"
                     /\ UNCHANGED <<outcome, appVars>>
             /\ UNCHANGED <<config, cancelFlag, explorerVars, fetchVars, ei,
                            knowledgeFragments, cleanedContent>>
     ELSE IF thisIsCancelled
     THEN /\ Catch(<<Log("WARNING", "Proces zatrzymany podczas ekstrakcji grafow")>>,
                   CancelMessage)
          /\ UNCHANGED <<config, cancelFlag, explorerVars, fetchVars, extractVars>>
     ELSE /\ logs' = Emit(logs, << Log("INFO", "Generuje graf wiedzy"),
                                Log("INFO", "Oczyszczono tresc") >>)
          /\ pc' = "awaitExtraction"
          /\ UNCHANGED <<config, cancelFlag, outcome, explorerVars, fetchVars,
                         extractVars, appVars>>

\* A test that every graph passes.
anyGraph(graph) == TRUE

\* graph.nodes && graph.nodes.length > 0 (346, 353)
hasNodes(graph) == Len(graph.nodes) > 0

\* 346-364; responses[url] are the raw graphs that the extraction of the
\* content of url can return.
ExtractorResponds(responses) ==
  /\ pc = "awaitExtraction"
  /\ \E rawGraph \in responses[scrapedContent[ei + 1].url] :
       LET cleanedGraph == cleanKnowledgeGraph(rawGraph) IN
       IF hasNodes(rawGraph)
       THEN IF hasNodes(cleanedGraph)
            THEN /\ knowledgeFragments' = Append(knowledgeFragments, cleanedGraph)
                 /\ logs' = Emit(logs, << Log("INFO", "Czyszczenie grafu"),
                                       Log("SUCCESS", "Wygenerowano oczyszczony graf") >>)
            ELSE /\ knowledgeFragments' = knowledgeFragments
                 /\ logs' = Emit(logs, << Log("INFO", "Czyszczenie grafu"),
                                       Log("WARNING", "Graf jest pusty po oczyszczeniu") >>)
       ELSE /\ knowledgeFragments' = knowledgeFragments
            /\ logs' = Emit(logs, <<Log("WARNING", "Pusty graf")>>)
  /\ pc' = "delayExtraction"
  /\ UNCHANGED <<config, cancelFlag, outcome, explorerVars, fetchVars, ei,
                 consolidatedGraph, cleanedContent, appVars>>

extractKnowledgeGraphReturns == ExtractorResponds([url \in URLs |-> RawGraphs])

\* The catch of 365-367: the document is skipped, without the delay.
extractKnowledgeGraphFails ==
  /\ pc = "awaitExtraction"
  /\ logs' = Emit(logs, <<Log("WARNING", "Blad generowania grafu")>>)
  /\ ei' = ei + 1
  /\ pc' = "extractLoop"
  /\ UNCHANGED <<config, cancelFlag, outcome, explorerVars, fetchVars,
                 knowledgeFragments, consolidatedGraph, cleanedContent, appVars>>

\* await this.delay(500) of 364 is over.
ExtractionDelayElapsed ==
  /\ pc = "delayExtraction"
  /\ ei' = ei + 1
  /\ pc' = "extractLoop"
  /\ UNCHANGED <<config, cancelFlag, logs, outcome, explorerVars, fetchVars,
                 knowledgeFragments, consolidatedGraph, cleanedContent, appVars>>

generateTopicalMapReturns ==
  /\ pc = "awaitSynthesis"
  /\ Return(<< Log("SUCCESS", "Wygenerowano finalna mape"),
               Log("SUCCESS", "Proces zakonczony pomyslnie") >>, Report, consolidatedGraph)
  /\ UNCHANGED <<config, cancelFlag, explorerVars, fetchVars, extractVars>>

generateTopicalMapFails ==
  /\ pc = "awaitSynthesis"
  /\ Catch(<<>>, SynthesisError)
  /\ UNCHANGED <<config, cancelFlag, explorerVars, fetchVars, extractVars>>

----------------------------------------------------------------------------
(***************************************************************************)
(* The cancellation flag and the handlers of App.                          *)
(***************************************************************************)
\* The flag behind the isCancelled callback of a ProcessingService is
\* raised while the run is suspended or before it starts.
Cancel ==
  /\ pc = "start" \/ Suspended
  /\ ~cancelFlag
  /\ cancelFlag' = TRUE
  /\ UNCHANGED <<config, pc, logs, outcome, explorerVars, fetchVars, extractVars, appVars>>

\* A handler that takes no run to be in progress.
neverInProgress == FALSE

\* if (isProcessing) return
inProgress == isProcessing

\* App.handleGenerate (88-124) up to the first await of the run.  The
\* callback () => isCancelled closes over the isCancelled of the render in
\* which the handler was created: the run reads that value from then on.
handleGenerate ==
  /\ pc = "idle" \/ Ended \/ Suspended
  /\ IF inProgress
     THEN UNCHANGED vars
     ELSE /\ isProcessing' = TRUE
          /\ isCancelled' = FALSE
          /\ results' = NoResults
          /\ cancelFlag' = isCancelled
          /\ \E cfg \in Configs :
               Begin(cfg, Emit(NoLogs, <<Log("INFO", "Rozpoczynanie przetwarzania projektu")>>))

\* App.handleStop (143-151); the Stop button is shown while a run is in
\* progress, and one press per run is modelled.
handleStop ==
  /\ Suspended
  /\ isProcessing
  /\ ~isCancelled
  /\ isCancelled' = TRUE
  /\ logs' = Emit(logs, <<Log("WARNING", "Proces zatrzymywany przez uzytkownika")>>)
  /\ UNCHANGED <<config, pc, cancelFlag, outcome, explorerVars, fetchVars, extractVars,
                 isProcessing, results>>

----------------------------------------------------------------------------
(***************************************************************************)
(* Specifications.                                                         *)
(***************************************************************************)
OtherSteps ==
  \/ performQueryExpansionReturns
  \/ performQueryExpansionFails
  \/ RoundLoop
  \/ QueryLoop
  \/ searchSerpFails
  \/ scoreQueryRelevanceReturns
  \/ scoreQueryRelevanceFails
  \/ SearchDelayElapsed
  \/ ScrapeLoop
  \/ scrapeContentReturns
  \/ scrapeContentFails
  \/ BatchDelayElapsed
  \/ ExtractLoop
  \/ extractKnowledgeGraphReturns
  \/ extractKnowledgeGraphFails
  \/ ExtractionDelayElapsed
  \/ generateTopicalMapReturns
  \/ generateTopicalMapFails

Step == searchSerpReturns \/ OtherSteps

InitRun ==
  /\ outcome = NoOutcome
  /\ logs = NoLogs
  /\ allUrls = <<>>
  /\ queriesToProcess = <<>>
  /\ processedQueries = {}
  /\ currentRound = 1
  /\ queriesForThisRound = <<>>
  /\ qi = 1
  /\ discoveredQueries = <<>>
  /\ scoredQueries = <<>>
  /\ di = 0
  /\ urls = <<>>
  /\ i = 0
  /\ inflight = {}
  /\ scrapedContent = <<>>
  /\ ei = 0
  /\ knowledgeFragments = <<>>
  /\ consolidatedGraph = EmptyGraph
  /\ cleanedContent = <<>>
  /\ isProcessing = FALSE
  /\ isCancelled = FALSE
  /\ results = NoResults

\* One run of a ProcessingService whose cancellation flag can be raised.
Init ==
  /\ config \in Configs
  /\ pc = "start"
  /\ cancelFlag = FALSE
  /\ InitRun

Next == processTopicalMap \/ Step \/ Cancel

Spec == Init /\ [][Next]_vars

\* Runs over manual URLs in which the fetch of a URL always returns the same
\* content and the extraction of a content always returns the same graph.
FixedContent == [url \in URLs |-> {101}]

FixedGraphs == [url \in URLs |-> {IF url = "u1" THEN SampleGraphs[3] ELSE SampleGraphs[4]}]

scrapeContentReturnsFixed == FetchResponds(FixedContent)

extractKnowledgeGraphReturnsFixed == ExtractorResponds(FixedGraphs)

InitFixed ==
  /\ config \in {c \in Configs : c.urlSource = "manual"}
  /\ pc = "start"
  /\ cancelFlag = FALSE
  /\ InitRun

NextFixed ==
  \/ processTopicalMap
  \/ ScrapeLoop
  \/ scrapeContentReturnsFixed
  \/ BatchDelayElapsed
  \/ ExtractLoop
  \/ extractKnowledgeGraphReturnsFixed
  \/ ExtractionDelayElapsed
  \/ generateTopicalMapReturns

SpecFixed == InitFixed /\ [][NextFixed]_vars

\* The application: runs started with Generate, Stop pressed during a run.
InitApp ==
  /\ config = [urlSource |-> "manual", serpExplorationDepth |-> 1, urls |-> <<>>]
  /\ pc = "idle"
  /\ cancelFlag = FALSE
  /\ InitRun

NextApp == handleGenerate \/ handleStop \/ Step

SpecApp == InitApp /\ [][NextApp]_vars

\* One run in which every search returns only queries met before.
NextSeen == processTopicalMap \/ searchSerpReturnsSeen \/ OtherSteps

SpecSeen == Init /\ [][NextSeen]_vars

----------------------------------------------------------------------------
(***************************************************************************)
(* cleanKnowledgeGraph and consolidateKnowledgeGraph on their own, applied *)
(* to fragments that an extractor may return: nodes that differ in letter  *)
(* case only, nodes of different fragments with the same id, noise,        *)
(* endpoints given as an id or as a label, endpoints that name no node,    *)
(* and weights that are missing, inside and outside of [0, 1].             *)
(***************************************************************************)
MaxFragments == 2
MaxFragmentNodes == 2
MaxFragmentEdges == 1

NodePool ==
  { Node(n1, <<"G", "u", "m">>, Concept, [src |-> "s1"]),
    Node(n2, <<"g", "u", "m">>, Concept, [src |-> "s2"]),
    Node(n1, <<"C", "a", "p">>, Product, NoProperties),
    Node(n3, <<"M", "e", "t", "a", " ", "A", "d">>, Concept, NoProperties),
    Node(n4, <<"x">>, <<"c", "a", "p", "_", "P", "r", "o">>, NoProperties) }

\* Weights in hundredths: none, 0.0, 0.5, 1.0 and 1.5.
Weights == {NoWeight, 0, 50, 100, 150}

has_x == <<"h", "a", "s", "_", "x">>

EdgePool ==
  {Edge(n1, n2, has, w) : w \in Weights}
    \cup { Edge(<<"g", "u", "m">>, n1, has, 50), Edge(n1, n3, has, 50),
           Edge(n2, n1, has_x, 50), Edge(n2, n4, has, 50) }

Fragments ==
  {[nodes |-> ns, edges |-> es] :
     ns \in SeqsUpTo(NodePool, MaxFragmentNodes), es \in SeqsUpTo(EdgePool, MaxFragmentEdges)}

\* Everything but pc, knowledgeFragments and consolidatedGraph.
restOfRun ==
  <<config, cancelFlag, logs, outcome, explorerVars, fetchVars, ei, cleanedContent, appVars>>

\* One more fragment comes back from the extractor (337-344).
extractFragment ==
  /\ pc = "fragments"
  /\ Len(knowledgeFragments) < MaxFragments
  /\ \E rawGraph \in Fragments : knowledgeFragments' = Append(knowledgeFragments, rawGraph)
  /\ UNCHANGED <<pc, consolidatedGraph, restOfRun>>

\* cleanKnowledgeGraph applied to every fragment (348), a first and a
\* second time.
cleanFragments ==
  /\ pc \in {"fragments", "cleaned"}
  /\ knowledgeFragments' =
       [k \in 1..Len(knowledgeFragments) |-> cleanKnowledgeGraph(knowledgeFragments[k])]
  /\ pc' = IF pc = "fragments" THEN "cleaned" ELSE "recleaned"
  /\ UNCHANGED <<consolidatedGraph, restOfRun>>

\* const consolidatedGraph = this.consolidateKnowledgeGraph(knowledgeFragments)
consolidate ==
  /\ pc \in {"fragments", "cleaned"}
  /\ consolidatedGraph' = consolidateKnowledgeGraph(knowledgeFragments)
  /\ pc' = "consolidated"
  /\ UNCHANGED <<knowledgeFragments, restOfRun>>

InitGraph ==
  /\ config = [urlSource |-> "manual", serpExplorationDepth |-> 1, urls |-> <<>>]
  /\ pc = "fragments"
  /\ cancelFlag = FALSE
  /\ InitRun

NextGraph == extractFragment \/ cleanFragments \/ consolidate

SpecGraph == InitGraph /\ [][NextGraph]_vars

----------------------------------------------------------------------------
(***************************************************************************)
(* cleanMarkdown on its own, applied to documents of a few lines: Atx      *)
(* headings of level 1, 2 and 4, plain lines, an empty line, and lines of  *)
(* dashes and of equals signs.                                             *)
(***************************************************************************)
MaxLines == 4

LinePool ==
  { <<"#", " ", "A">>, <<" ", "#", "#", " ", "B">>, <<"#", "#", "#", "#", " ", "D">>,
    <<"t">>, <<"x">>, <<>>, <<"-", "-", "-">>, <<"=">> }

\* A fetched document arrives (271-283).
scrapeContentReturnsMarkdown ==
  /\ pc = "markdown"
  /\ \E lines \in SeqsUpTo(LinePool, MaxLines) :
       scrapedContent' = <<[url |-> "u1", content |-> join(lines, <<"\n">>)]>>
  /\ pc' = "scraped"
  /\ UNCHANGED <<config, cancelFlag, logs, outcome, explorerVars, urls, i, inflight,
                 extractVars, appVars>>

\* const cleanedContent = cleanMarkdown(content)
cleanContent ==
  /\ pc = "scraped"
  /\ cleanedContent' = cleanMarkdown(scrapedContent[1].content)
  /\ pc' = "cleanedMarkdown"
  /\ UNCHANGED <<config, cancelFlag, logs, outcome, explorerVars, fetchVars, ei,
                 knowledgeFragments, consolidatedGraph, appVars>>

InitMarkdown ==
  /\ config = [urlSource |-> "manual", serpExplorationDepth |-> 1, urls |-> <<>>]
  /\ pc = "markdown"
  /\ cancelFlag = FALSE
  /\ InitRun

NextMarkdown == scrapeContentReturnsMarkdown \/ cleanContent

SpecMarkdown == InitMarkdown /\ [][NextMarkdown]_vars

----------------------------------------------------------------------------
(***************************************************************************)
(* Properties.                                                             *)
(***************************************************************************)
StartsSearch == pc # "awaitSearch" /\ pc' = "awaitSearch"
StartsBatch == pc # "awaitBatch" /\ pc' = "awaitBatch"
StartsExtraction == pc # "awaitExtraction" /\ pc' = "awaitExtraction"

\* The run stands at a loop head with a unit of work left.
AtCheckpoint ==
  \/ pc = "roundLoop" /\ currentRound <= config.serpExplorationDepth
  \/ pc = "queryLoop" /\ qi <= Len(queriesForThisRound)
  \/ pc = "scrapeLoop" /\ i < Len(urls)
  \/ pc = "extractLoop" /\ ei < Len(scrapedContent)

\* C1: while the cancellation flag is up no search call, no fetch batch and
\* no extraction call is started, and a run that reaches a unit of work
\* with the flag up is aborted with 'Process cancelled by user'.
C1_CancelledStartsNoWork ==
  [][ /\ (cancelFlag /\ cancelFlag') =>
           ~(StartsSearch \/ StartsBatch \/ StartsExtraction)
      /\ (cancelFlag /\ AtCheckpoint) =>
           (pc' = "cancelled" /\ outcome'.message = CancelMessage) ]_vars

\* The flag went up during extraction, after a fragment had been produced.
C1_Witness ==
  /\ pc = "cancelled"
  /\ cancelFlag
  /\ Len(knowledgeFragments) > 0
  /\ ei < Len(scrapedContent)

\* C2: once Stop has been pressed during a run, the check polled by that
\* run returns true.
C2_StopReachesRun == (isProcessing /\ isCancelled) => thisIsCancelled

\* C3: a run that ends because of cancellation has logged no ERROR entry.
C3_NoErrorOnCancel == pc = "cancelled" => Count(logs, "ERROR") = 0

\* C4: after a cancelled run the documents scraped before the stop are in
\* what processTopicalMap returned.
C4_DataPreserved ==
  (pc = "cancelled" /\ Len(scrapedContent) > 0) =>
    (outcome.kind = "results" /\ outcome.scrapedContent = scrapedContent)

ItemFails ==
  searchSerpFails \/ scoreQueryRelevanceFails \/ scrapeContentFails
    \/ extractKnowledgeGraphFails

\* A suspended run has a call or a timer left to wake it up.
NotStuck ==
  /\ pc = "awaitScore" => di < Len(discoveredQueries)
  /\ pc = "awaitBatch" => inflight # {}

RunEndsWell ==
  /\ pc = "failed" => outcome.message \in {ExpansionError, SynthesisError}
  /\ pc = "cancelled" => cancelFlag
  /\ pc = "done" =>
       /\ outcome.kind = "results"
       /\ outcome.topicalMap \in {Report, Placeholder}
       /\ outcome.metadata.processedUrls <= outcome.metadata.totalUrls

ItemDropped ==
  /\ Count(logs', "WARNING") = Count(logs, "WARNING") + 1
  /\ ~Ended'
  /\ UNCHANGED <<allUrls, scrapedContent, knowledgeFragments>>

\* C5: a run fails only when query expansion or synthesis fails and is
\* cancelled only when the flag is up; it is never stuck; it returns a
\* report with processedUrls <= totalUrls; and every failed search,
\* scoring, fetch or extraction logs one WARNING, does not end the run and
\* leaves the collected URLs, documents and fragments as they were.
C5_DegradedRunCompletes ==
  [][RunEndsWell' /\ NotStuck' /\ (ItemFails => ItemDropped)]_vars

\* A completed run in which a fetch was dropped and two warnings logged.
C5_Witness ==
  /\ pc = "done"
  /\ ~cancelFlag
  /\ outcome.topicalMap = Report
  /\ outcome.metadata.processedUrls < outcome.metadata.totalUrls
  /\ Count(logs, "WARNING") >= 2

\* C6: generateTopicalMap of the API is awaited only with a graph that has
\* a node; a run that ends with an empty graph returns the placeholder, and
\* a run without fragments always ends that way.
C6_NoSynthesisOfEmptyGraph ==
  /\ pc = "awaitSynthesis" => Len(consolidatedGraph.nodes) > 0
  /\ (pc = "failed" /\ outcome.message = SynthesisError) => Len(consolidatedGraph.nodes) > 0
  /\ (pc = "done" /\ Len(outcome.knowledgeGraph.nodes) = 0) =>
       outcome.topicalMap = Placeholder
  /\ (pc \in {"awaitSynthesis", "done", "failed"} /\ knowledgeFragments = <<>>
        /\ outcome.kind # "error") =>
       (pc = "done" /\ outcome.topicalMap = Placeholder)

\* Documents were scraped but no fragment survived the noise filter.
C6_Witness ==
  /\ pc = "done"
  /\ outcome.topicalMap = Placeholder
  /\ Len(scrapedContent) > 0
  /\ knowledgeFragments = <<>>

Exploring == pc \in {"roundLoop", "queryLoop", "awaitSearch", "awaitScore", "delaySearch"}

InRound == pc \in {"queryLoop", "awaitSearch", "awaitScore", "delaySearch"}

\* No round beyond serpExplorationDepth is entered.
RoundsBounded ==
  /\ InRound => currentRound <= config.serpExplorationDepth
  /\ pc = "roundLoop" => currentRound <= config.serpExplorationDepth + 1

\* What is left of the exploration, as a number that every step of getUrls
\* makes smaller: rounds, then queries of the round, then the steps of one
\* query.
IterationWeight == Cardinality(Queries) + 4

RoundWeight == MaxInitialQueries * IterationWeight + 3

PhaseWeight ==
  CASE pc = "queryLoop" -> IterationWeight
    [] pc = "awaitSearch" -> IterationWeight - 1
    [] pc = "awaitScore" -> 1 + Len(discoveredQueries) - di
    [] OTHER -> 1

Variant ==
  (config.serpExplorationDepth + 1 - currentRound) * RoundWeight
    + (IF pc = "roundLoop" THEN RoundWeight - 1
       ELSE (Len(queriesForThisRound) - qi) * IterationWeight + PhaseWeight + 1)

ExplorationProgresses ==
  (Exploring /\ Exploring' /\ cancelFlag' = cancelFlag) =>
    (Variant' < Variant /\ Variant' >= 0)

LeavesRoundLoop == pc = "roundLoop" /\ pc' # "roundLoop"

EndsDiscovery == pc' = "scrapeLoop" /\ outcome' = NoOutcome /\ urls' = Unique(allUrls)

\* C7 as stated: no round beyond serpExplorationDepth is entered, and a
\* round loop that finds queriesToProcess empty ends the discovery without
\* an error.
C7_EmptyQueueEndsDiscovery ==
  [][ /\ RoundsBounded'
      /\ (LeavesRoundLoop /\ Len(queriesToProcess) = 0) => EndsDiscovery ]_vars

\* C7, amended: every step of the discovery brings it closer to its end, no
\* round beyond serpExplorationDepth is entered, and a round loop that finds
\* queriesToProcess empty ends the discovery without an error unless the
\* cancellation check at the top of the round, which comes first, fires.
C7_DiscoveryTerminates ==
  [][ /\ RoundsBounded'
      /\ ExplorationProgresses
      /\ (LeavesRoundLoop /\ Len(queriesToProcess) = 0
            /\ (~cancelFlag \/ currentRound > config.serpExplorationDepth)) => EndsDiscovery
      /\ (LeavesRoundLoop /\ Len(queriesToProcess) = 0 /\ cancelFlag
            /\ currentRound <= config.serpExplorationDepth) =>
           (pc' = "cancelled" /\ outcome'.message = CancelMessage) ]_vars

\* A discovery of depth 3 that ended early on an empty queue, with URLs.
C7_Witness ==
  /\ config.urlSource = "auto"
  /\ config.serpExplorationDepth = MaxDepth
  /\ pc = "scrapeLoop"
  /\ Log("INFO", "Brak nowych zapytan") \in DOMAIN logs
  /\ Len(urls) > 0

\* C8: the candidates discovered in each of the rounds 1..D are scored, so
\* that the selected one can seed the next of the D additional rounds.
C8_EveryRoundSeedsTheNext ==
  (pc = "delaySearch" /\ Len(discoveredQueries) > 0
     /\ currentRound <= config.serpExplorationDepth) =>
    di = Len(discoveredQueries)

SelectionStep == pc = "awaitScore" /\ pc' = "delaySearch"

Scores(scored) == {scored[k].score : k \in 1..Len(scored)}

MaxScore(scored) == CHOOSE m \in Scores(scored) : \A n \in Scores(scored) : n <= m

Enqueued(query) == queriesToProcess' = Append(queriesToProcess, query)

C10_SeenQueriesEndExploration ==
  (config.urlSource = "auto" /\ config.serpExplorationDepth = 3) =>
    /\ InRound => (currentRound = 1 /\ queriesToProcess = <<>>)
    /\ (pc = "roundLoop" /\ currentRound > 1) => queriesToProcess = <<>>

FirstIndex(s, x) == CHOOSE k \in 1..Len(s) : s[k] = x /\ \A j \in 1..(k - 1) : s[j] # x

\* out holds the elements of all, each once, in the order of their first
\* occurrence in all.
IsFirstSeenDedup(out, all) ==
  /\ Range(out) = Range(all)
  /\ \A a, b \in 1..Len(out) : a # b => out[a] # out[b]
  /\ \A a, b \in 1..Len(out) : a < b => FirstIndex(all, out[a]) < FirstIndex(all, out[b])

ReturnsUrls == pc = "roundLoop" /\ pc' = "scrapeLoop"

SearchSucceeds == pc = "awaitSearch" /\ pc' \in {"awaitScore", "delaySearch"}

Links(searchResults) == [k \in 1..Len(searchResults) |-> searchResults[k].link]

\* C11: every successful search appends its links to the accumulated list,
\* no other step of the discovery changes that list, and the list the
\* discovery returns holds exactly the accumulated URLs, each once, in the
\* order in which they were first seen.
C11_UrlsDeduplicatedFirstSeen ==
  [][ /\ ReturnsUrls => IsFirstSeenDedup(urls', allUrls)
      /\ SearchSucceeds =>
           \E searchResults \in SearchResponses : allUrls' = allUrls \o Links(searchResults)
      /\ (Exploring /\ ~SearchSucceeds /\ ~ReturnsUrls) => allUrls' = allUrls ]_vars

\* A discovery with three successful searches returned two URLs, the one
\* seen first being u2.
C11_Witness ==
  /\ config.urlSource = "auto"
  /\ pc = "scrapeLoop"
  /\ urls = <<"u2", "u1">>
  /\ Log("INFO", "Znaleziono URL-i") \in DOMAIN logs
  /\ logs[Log("INFO", "Znaleziono URL-i")] >= 3

NodeIds(graph) == {graph.nodes[k].id : k \in 1..Len(graph.nodes)}

Integrity(graph) ==
  \A k \in 1..Len(graph.edges) :
    graph.edges[k].source \in NodeIds(graph) /\ graph.edges[k].target \in NodeIds(graph)

\* C12: in every fragment that cleanKnowledgeGraph returned and in the
\* graph that consolidateKnowledgeGraph returned, the source and the target
\* of every edge are ids of nodes of that same graph.
C12_ReferentialIntegrity ==
  /\ pc \in {"cleaned", "recleaned"} =>
       \A k \in 1..Len(knowledgeFragments) : Integrity(knowledgeFragments[k])
  /\ pc = "consolidated" => Integrity(consolidatedGraph)

\* A consolidation that kept an edge and dropped another whose endpoint
\* names no node of any fragment.
C12_Witness ==
  /\ pc = "consolidated"
  /\ Len(consolidatedGraph.edges) > 0
  /\ \E f \in 1..Len(knowledgeFragments) :
       \E k \in 1..Len(knowledgeFragments[f].edges) :
         findNodeKey(knowledgeFragments[f].edges[k].target, knowledgeFragments) = NoKey

\* C13: cleaning fragments that were cleaned before leaves every one of
\* them as it is, nodes and edges in the same order.
C13_CleaningIdempotent ==
  [][(pc = "cleaned" /\ pc' = "recleaned") => knowledgeFragments' = knowledgeFragments]_vars

\* Fragments cleaned twice: one that kept two nodes and an edge, one that
\* kept a single node.
C13_Witness ==
  /\ pc = "recleaned"
  /\ \E k \in 1..Len(knowledgeFragments) :
       Len(knowledgeFragments[k].nodes) = 2 /\ Len(knowledgeFragments[k].edges) = 1
  /\ \E k \in 1..Len(knowledgeFragments) :
       Len(knowledgeFragments[k].nodes) = 1 /\ Len(knowledgeFragments[k].edges) = 0

\* C14: every edge of the consolidated graph has a weight of at most 1.0.
C14_WeightAtMostOne ==
  pc = "consolidated" =>
    \A k \in 1..Len(consolidatedGraph.edges) : consolidatedGraph.edges[k].weight <= 100

RECURSIVE AllEdges(_)
AllEdges(fragments) ==
  IF fragments = <<>> THEN <<>> ELSE Head(fragments).edges \o AllEdges(Tail(fragments))

\* edgeMap when the first k edges of the fragments have been handled.
EdgeMapAfter(k, fragments) == addEdges(<<>>, SubSeq(AllEdges(fragments), 1, k), fragments)

\* C15: handling one more edge leaves the weight of every edge already in
\* edgeMap equal or larger.
C15_WeightNeverDecreases ==
  pc = "consolidated" =>
    \A k \in 1..Len(AllEdges(knowledgeFragments)) :
      LET before == EdgeMapAfter(k - 1, knowledgeFragments)
          after == EdgeMapAfter(k, knowledgeFragments)
      IN \A j \in 1..Len(before) :
           /\ after[j].key = before[j].key
           /\ after[j].value.weight >= before[j].value.weight

InputNodes(fragments) ==
  UNION {Range(fragments[f].nodes) : f \in 1..Len(fragments)}

GumConcept == <<"g", "u", "m", "_", "C", "o", "n">>

\* The canonical key of a node: its label in lower case, "_", its type.
CanonicalKey(node) == toLowerCase(node.label) \o <<"_">> \o node.type

\* C16: the consolidated graph has one node for each canonical key
\* lowercase(label)_type of the input nodes and no other node, and the id
\* of each node is its canonical key; Gum and gum of type Con from two
\* fragments become the single node gum_Con.
C16_OneNodePerCanonicalKey ==
  pc = "consolidated" =>
    LET nodes == consolidatedGraph.nodes
        keys == {CanonicalKey(n) : n \in InputNodes(knowledgeFragments)}
    IN /\ NodeIds(consolidatedGraph) = keys
       /\ Len(nodes) = Cardinality(keys)
       /\ \A k \in 1..Len(nodes) : nodes[k].id = CanonicalKey(nodes[k])
       /\ \A k \in 1..Len(nodes) :
            \E n \in InputNodes(knowledgeFragments) :
              nodes[k].label = n.label /\ nodes[k].type = n.type
       /\ (\E n \in InputNodes(knowledgeFragments) : CanonicalKey(n) = GumConcept) =>
            Cardinality({k \in 1..Len(nodes) : nodes[k].id = GumConcept}) = 1

\* Two fragments, one with Gum under id n1 and one with gum under id n2,
\* gave a graph whose only node has the id gum_Con.
C16_Witness ==
  /\ pc = "consolidated"
  /\ Len(knowledgeFragments) = 2
  /\ Len(knowledgeFragments[1].nodes) = 1
  /\ knowledgeFragments[1].nodes[1].label = <<"G", "u", "m">>
  /\ Len(knowledgeFragments[2].nodes) = 1
  /\ knowledgeFragments[2].nodes[1].label = <<"g", "u", "m">>
  /\ Len(consolidatedGraph.nodes) = 1
  /\ consolidatedGraph.nodes[1].id = GumConcept

\* The lines of a text that are not blank, trimmed, in order.
KeptLines(lines) ==
  LET notBlank(line) == trim(line) # <<>>
      kept == SelectSeq(lines, notBlank)
  IN [k \in 1..Len(kept) |-> trim(kept[k])]

\* A heading: an Atx heading of level 1-3, or a
\* line of text followed by a line of '=' only or of '-' only.
IsHeading(lines, k) ==
  \/ atxMatch(trim(lines[k]))
  \/ trim(lines[k]) # <<>> /\ k < Len(lines) /\ isUnderline(trim(lines[k + 1]))

\* C17: the output of cleanMarkdown holds the lines from the first heading
\* on and no line before it; without a heading no block is opened and the
\* beginning of the text is returned.
C17_BlocksOpenAtHeadingsOnly ==
  pc = "cleanedMarkdown" =>
    LET rawMarkdown == scrapedContent[1].content
        lines == split(rawMarkdown)
        headings == {k \in 1..Len(lines) : IsHeading(lines, k)}
    IN IF headings = {}
       THEN cleanedContent = trim(substring(rawMarkdown, FallbackLength))
       ELSE LET first == CHOOSE k \in headings : \A h \in headings : k <= h
            IN KeptLines(split(cleanedContent)) = KeptLines(SubSeq(lines, first, Len(lines)))

\* C18: while a round is in progress at most one query is waiting in
\* queriesToProcess for the next round.
C18_OneQueryPerRound == InRound => Len(queriesToProcess) <= 1

SearchLog == Log("INFO", "Wyszukiwanie URL-i dla zapytania")

Searches == IF SearchLog \in DOMAIN logs THEN logs[SearchLog] ELSE 0

\* C19: a search call is started only for a query that is not in
\* processedQueries and puts the query there; processedQueries never
\* loses a query, whether the search fails or not; so the number of search
\* calls of the discovery is the number of queries in processedQueries.
C19_EachQuerySearchedOnce ==
  [][ /\ StartsSearch =>
           /\ queriesForThisRound[qi] \notin processedQueries
           /\ processedQueries' = processedQueries \cup {queriesForThisRound[qi]}
      /\ (Exploring /\ Exploring') => processedQueries \subseteq processedQueries'
      /\ Exploring' => Searches' = Cardinality(processedQueries') ]_vars

\* Round 2 has gone through its only query without a search: both searches
\* of the run were made in round 1, one of them failed.
C19_Witness ==
  /\ pc = "queryLoop"
  /\ currentRound = 2
  /\ Len(queriesForThisRound) = 1
  /\ qi = 2
  /\ Cardinality(processedQueries) = 2
  /\ Searches = 2
  /\ Log("WARNING", "Blad wyszukiwania") \in DOMAIN logs

LeavesSearch == pc = "awaitSearch" /\ pc' # "awaitSearch"

SearchFails == pc = "awaitSearch" /\ pc' = "queryLoop"

\* C20: a search call ends in the evaluation of its results or, when it
\* fails, in the next query of the same round: the failure logs one
\* WARNING and no ERROR and leaves the URLs, the queue of the next round and
\* the round as they were; a query of the round that is not processed is
\* searched whatever happened to the queries before it.
C20_FailedSearchSkipsQuery ==
  [][ /\ LeavesSearch => pc' \in {"awaitScore", "delaySearch", "queryLoop"}
      /\ SearchFails =>
           /\ qi' = qi + 1
           /\ UNCHANGED <<allUrls, queriesToProcess, processedQueries, currentRound,
                          queriesForThisRound, outcome>>
           /\ Count(logs', "WARNING") = Count(logs, "WARNING") + 1
           /\ Count(logs', "ERROR") = Count(logs, "ERROR")
      /\ (pc = "queryLoop" /\ pc' # "queryLoop" /\ qi <= Len(queriesForThisRound)
            /\ ~cancelFlag) => pc' = "awaitSearch" ]_vars

\* After a failed search the run is searching in round 2 with URLs of
\* round 1.
C20_Witness ==
  /\ pc = "awaitSearch"
  /\ currentRound = 2
  /\ Len(allUrls) > 0
  /\ Log("WARNING", "Blad wyszukiwania") \in DOMAIN logs
  /\ Count(logs, "WARNING") = 1

\* C21: at most 3 fetches are in flight; a batch is started only when no
\* fetch is in flight and consists of the next 3 URLs at most; no fetch is
\* started in any other way.
C21_BatchesOfThree ==
  [][ /\ Cardinality(inflight') <= 3
      /\ StartsBatch =>
           /\ inflight = {}
           /\ inflight' = {k \in 1..Len(urls) : i < k /\ k <= i + 3}
      /\ ~StartsBatch => inflight' \subseteq inflight ]_vars

\* The fourth URL is being fetched after the three fetches of the first
\* batch have settled, one of them without a document.
C21_Witness ==
  /\ pc = "awaitBatch"
  /\ i = 3
  /\ inflight = {4}
  /\ Len(scrapedContent) = 2

FetchSettles == pc = "awaitBatch" /\ inflight' # inflight

Kept(k) ==
  \E contentLength \in ContentLengths :
    /\ contentLength > 100
    /\ scrapedContent' = Append(scrapedContent, [url |-> urls[k], content |-> contentLength])
    /\ Count(logs', "WARNING") = Count(logs, "WARNING")

Dropped ==
  /\ scrapedContent' = scrapedContent
  /\ Count(logs', "WARNING") = Count(logs, "WARNING") + 1

\* C22: a fetch that settles either appends its URL with a content of more
\* than 100 characters or leaves the list as it is and logs a WARNING; the
\* fetch phase goes on in both cases, and every document of the list has a
\* content of more than 100 characters.
C22_OnlyViableContentKept ==
  [][ /\ FetchSettles =>
           /\ \E k \in inflight : inflight' = inflight \ {k} /\ (Kept(k) \/ Dropped)
           /\ pc' \in {"awaitBatch", "delayBatch", "scrapeLoop"}
      /\ ~FetchSettles => (pc \in {"scrapeLoop", "delayBatch"} => scrapedContent' = scrapedContent)
      /\ \A k \in 1..Len(scrapedContent') : scrapedContent'[k].content > 100 ]_vars

\* Of three URLs one gave a document of 101 characters, one gave too little
\* content and one fetch failed; the run is at the extraction.
C22_Witness ==
  /\ pc = "awaitExtraction"
  /\ Len(urls) = 3
  /\ Len(scrapedContent) = 1
  /\ scrapedContent[1].content = 101
  /\ Log("WARNING", "Zbyt malo tresci") \in DOMAIN logs
  /\ Log("WARNING", "Blad pobierania") \in DOMAIN logs

ExtractionReturns == pc = "awaitExtraction" /\ pc' # "awaitExtraction"

IsCleanedFragment(fragment) ==
  /\ Len(fragment.nodes) > 0
  /\ \E rawGraph \in RawGraphs : fragment = cleanKnowledgeGraph(rawGraph)

\* C23: every fragment of the list is the cleaned graph of an extraction
\* and has a node; an extraction that returns adds one such fragment or
\* none, and the run goes on with the next document.
C23_FragmentsCleanedAndNonEmpty ==
  [][ /\ \A k \in 1..Len(knowledgeFragments') : IsCleanedFragment(knowledgeFragments'[k])
      /\ ExtractionReturns =>
           /\ pc' \in {"delayExtraction", "extractLoop"}
           /\ \/ knowledgeFragments' = knowledgeFragments
              \/ /\ Len(knowledgeFragments') = Len(knowledgeFragments) + 1
                 /\ SubSeq(knowledgeFragments', 1, Len(knowledgeFragments)) = knowledgeFragments
      /\ (pc' \in {"awaitSynthesis", "done"} /\ pc = "extractLoop") =>
           consolidatedGraph' = consolidateKnowledgeGraph(knowledgeFragments) ]_vars

\* A completed run with two documents: the graph of one was noise only and
\* the other gave the only fragment.
C23_Witness ==
  /\ pc = "done"
  /\ outcome.topicalMap = Report
  /\ Len(scrapedContent) = 2
  /\ Len(knowledgeFragments) = 1
  /\ Log("WARNING", "Graf jest pusty po oczyszczeniu") \in DOMAIN logs

\* The triples (source key, relationship, target key) of the input edges
\* whose two endpoints name a node.
Triples(fragments) ==
  {<<findNodeKey(e.source, fragments), e.relationship, findNodeKey(e.target, fragments)>> :
     e \in {d \in Range(AllEdges(fragments)) :
              /\ findNodeKey(d.source, fragments) # NoKey
              /\ findNodeKey(d.target, fragments) # NoKey}}

C25_FirstWeightAsGiven ==
  pc = "consolidated" =>
    \A k \in 1..Len(AllEdges(knowledgeFragments)) :
      LET before == EdgeMapAfter(k - 1, knowledgeFragments)
          after == EdgeMapAfter(k, knowledgeFragments)
          edge == AllEdges(knowledgeFragments)[k]
      IN Len(after) = Len(before) + 1 =>
           after[Len(after)].value.weight =
             IF edge.weight = NoWeight THEN 100 ELSE edge.weight

\* The key of the first node of a fragment that an endpoint names by id or
\* by label, NoKey when the fragment has no such node.
OwnKey(nodeId, fragment) == findNodeKey(nodeId, <<fragment>>)

RECURSIVE InOrderFragments(_)
InOrderFragments(all) ==
  IF all = <<>> THEN <<>>
  ELSE LET rawGraph == CHOOSE g \in FixedGraphs[Head(all)] : TRUE
           cleanedGraph == cleanKnowledgeGraph(rawGraph)
       IN (IF Len(cleanedGraph.nodes) > 0 THEN <<cleanedGraph>> ELSE <<>>)
            \o InOrderFragments(Tail(all))

\* C27: with fixed fetch and extraction responses the consolidated graph
\* is the one of the run whose fetches complete in the order of the URL
\* list, whatever the order in which the fetches of a batch complete.
C27_GraphIndependentOfCompletionOrder ==
  pc = "awaitSynthesis" =>
    consolidatedGraph = consolidateKnowledgeGraph(InOrderFragments(urls))

\* C28: the URL list handed to scrapeContent, whose every position is
\* fetched once, holds no URL twice, in automatic and in manual mode.
C28_NoUrlFetchedTwice ==
  /\ \A j, k \in 1..Len(urls) : urls[j] = urls[k] => j = k
  /\ \A j, k \in inflight : urls[j] = urls[k] => j = k

\* C29: when the cancellation flag is up before the call of
\* generateTopicalMap starts, the run does not start that call, also when
\* the flag went up after the last check of the extraction loop.
C29_NoSynthesisAfterCancel ==
  [][ (cancelFlag /\ pc # "awaitSynthesis") => pc' # "awaitSynthesis" ]_vars

\* A run is started by Generate.
StartsRun ==
  \E cfg \in Configs :
    Begin(cfg, Emit(NoLogs, <<Log("INFO", "Rozpoczynanie przetwarzania projektu")>>))

\* C30: a run is started only when none is in progress and sets the
\* in-progress flag, the flag is up as long as the run has not ended, and
\* it is down when the run has ended with a result, an error or a
\* cancellation.
C30_OneRunAtATime ==
  [][ /\ StartsRun => (~isProcessing /\ isProcessing')
      /\ (pc' # "idle" /\ ~Ended') => isProcessing'
      /\ Ended' => ~isProcessing' ]_vars

C30_Witness ==
  /\ pc = "cancelled"
  /\ ~isProcessing
  /\ results = [kind |-> "undefined"]
  /\ isCancelled = FALSE
====
